---- MODULE Spec2Model ----
(***************************************************************************)
(* SprintSync: the relational store (users, projects, project_members,    *)
(* tasks), the authorization resolver (crud/*.py) and the request         *)
(* handlers (routers/*.py) that consult it.                               *)
(*                                                                         *)
(* Every handler is a function from (store, request) to (status code,     *)
(* store'); the action of the same name applies it and records the        *)
(* request and its status code in `last`.  create_project commits twice,  *)
(* so it is two steps with the store visible in between.                  *)
(* add_time_to_task served by several workers is a read step and a commit *)
(* step.  Accounts (register, profile, admin update, delete) and the      *)
(* bearer-token dependency are modelled over the email column of users.   *)
(*                                                                         *)
(* The assignee column of tasks is owner_id (alembic revision             *)
(* 1fe741ec39eb renames assigned_to_id; crud, routers, seeder and the     *)
(* User model all use Task.owner_id).                                     *)
(***************************************************************************)
EXTENDS Integers, Sequences, FiniteSets, TLC

\* ---------------------------------------------------------------- bounds
MaxProjects == 1
MaxTasks == 1
MaxMinutes == 1
MaxWorkers == 2
MaxTotal == 3
MaxListed == 2
MaxIssued == 1

\* ------------------------------------------------------------- universes
None == 0
UserIds == {1, 2, 3}
SeedAdmins == {1}
Emails == {"admin@example.com", "john@example.com", "sarah@example.com"}
SeedEmails == <<"admin@example.com", "john@example.com", "sarah@example.com">>
ProjectIds == 1..MaxProjects
TaskIds == 1..MaxTasks
OWNER == "owner"
ADMIN == "admin"
MEMBER == "member"
ProjectRole == {OWNER, ADMIN, MEMBER}
TaskStatus == {"todo", "in_progress", "done"}
TaskUpdateFields == {"title", "description", "status", "total_minutes"}

VARIABLES users, admins, projects, members, tasks, creating, adding, emails, nextProject, nextTask, nextUser, issued, last

vars == <<users, admins, projects, members, tasks, creating, adding, emails, nextProject, nextTask, nextUser, issued, last>>
store == <<users, admins, projects, members, tasks, creating, adding, emails, nextProject, nextTask, nextUser, issued>>

\* ------------------------------------------------------------ the store
\* users     : ids of the rows of table users
\* admins    : ids of the users whose is_admin flag is set
\* projects  : project id -> [owner_id]          (rows of table projects)
\* members   : <<project id, user id>> -> the roles of the project_members
\*             rows of that pair, one entry per row
\* tasks     : task id -> [user_id, owner_id, project_id, status, total_minutes]
\* issued    : the access tokens login has handed out and that have not
\*             expired, each with the user it was issued to: [sub, user]
\* creating  : projects whose create_project call sits between its two commits
\* adding    : per worker, the add-time request it holds between reading the
\*             task and committing the new total (Idle: none)
\* emails    : user id -> the email of the users row (unique index)
\* nextProject, nextTask, nextUser : ids are fresh (uuid4), never reused
\* last      : the request handled last and its status code

\* what `last` keeps of a handled request: the endpoint, the caller, the status
Handled(op, c, code) == [op |-> op, caller |-> c, code |-> code]

\* workers (processes or instances) serving requests against the one database
Workers == 1..MaxWorkers
Idle == [caller |-> None, task |-> None, minutes |-> 0, read |-> 0]
NoRequests == [w \in Workers |-> Idle]

NoRows == [k \in ProjectIds \X UserIds |-> <<>>]

Init ==
    /\ users = UserIds
    /\ admins = SeedAdmins
    /\ emails = SeedEmails
    /\ nextUser = 4
    /\ issued = {}
    /\ projects = <<>>
    /\ members = NoRows
    /\ tasks = <<>>
    /\ creating = {}
    /\ adding = NoRequests
    /\ nextProject = 1
    /\ nextTask = 1
    /\ last = Handled("init", None, 0)

Rows(p, u) == IF p \in ProjectIds /\ u \in UserIds THEN members[<<p, u>>] ELSE <<>>

HasRole(p, u, r) == \E i \in DOMAIN Rows(p, u) : Rows(p, u)[i] = r

RemoveAt(s, i) == [j \in 1..(Len(s) - 1) |-> IF j < i THEN s[j] ELSE s[j + 1]]

\* ------------------------------------------------- authorization resolver
\* crud/project.py
is_project_owner(p, u) == p \in DOMAIN projects /\ projects[p].owner_id = u

is_project_member(p, u) == Rows(p, u) # <<>>

is_project_admin(p, u) == is_project_owner(p, u) \/ HasRole(p, u, ADMIN)

\* crud/project_member.py
can_manage_members(p, u) == is_project_owner(p, u) \/ HasRole(p, u, ADMIN)

\* get_user_role: OWNER for the project's owner, else the role of the row
\* the lookup returns (`i`, 0 when the pair has no row)
get_user_role(p, u, i) ==
    IF is_project_owner(p, u) THEN OWNER
    ELSE IF i = 0 THEN "none" ELSE Rows(p, u)[i]

\* the rows .first() may return for the pair: any of them (no ORDER BY)
FirstRow(p, u) == IF Rows(p, u) = <<>> THEN {0} ELSE DOMAIN Rows(p, u)

\* mutants of the resolver and of the handlers, used to test the claims
can_view_task_NoAssignee(t, u) ==
    IF t \notin DOMAIN tasks THEN FALSE
    ELSE IF tasks[t].user_id = u THEN TRUE
    ELSE IF tasks[t].project_id # None
         THEN is_project_owner(tasks[t].project_id, u)
              \/ Rows(tasks[t].project_id, u) # <<>>
    ELSE FALSE

can_edit_task_AnyMember(t, u) ==
    IF t \notin DOMAIN tasks THEN FALSE
    ELSE IF tasks[t].user_id = u THEN TRUE
    ELSE IF tasks[t].owner_id = u THEN TRUE
    ELSE IF tasks[t].project_id # None
         THEN is_project_owner(tasks[t].project_id, u)
              \/ is_project_member(tasks[t].project_id, u)
    ELSE FALSE

can_assign_task_Creator(t, u) ==
    IF t \notin DOMAIN tasks THEN FALSE
    ELSE IF tasks[t].user_id = u THEN TRUE
    ELSE IF u \in users /\ u \in admins THEN TRUE
    ELSE IF tasks[t].project_id # None
         THEN is_project_owner(tasks[t].project_id, u)
              \/ is_project_admin(tasks[t].project_id, u)
    ELSE FALSE

can_assign_task_AdminFirst(t, u) ==
    IF u \in users /\ u \in admins THEN TRUE
    ELSE IF t \notin DOMAIN tasks THEN FALSE
    ELSE IF tasks[t].project_id # None
         THEN is_project_owner(tasks[t].project_id, u)
              \/ is_project_admin(tasks[t].project_id, u)
    ELSE FALSE

can_unassign_task_NoAssignee(t, u) ==
    IF t \notin DOMAIN tasks THEN FALSE
    ELSE IF tasks[t].user_id = u THEN TRUE
    ELSE IF u \in users /\ u \in admins THEN TRUE
    ELSE IF tasks[t].project_id # None
         THEN is_project_owner(tasks[t].project_id, u)
              \/ is_project_admin(tasks[t].project_id, u)
    ELSE FALSE

\* crud/task.py
\* mutant: in a project only its owner may view, member rows are not read
can_view_task_NoMembers(t, u) ==
    IF t \notin DOMAIN tasks THEN FALSE
    ELSE IF tasks[t].user_id = u THEN TRUE
    ELSE IF tasks[t].owner_id = u THEN TRUE
    ELSE IF tasks[t].project_id # None
         THEN is_project_owner(tasks[t].project_id, u)
    ELSE FALSE

can_view_task(t, u) ==
    IF t \notin DOMAIN tasks THEN FALSE
    ELSE IF tasks[t].user_id = u THEN TRUE
    ELSE IF tasks[t].owner_id = u THEN TRUE
    ELSE IF tasks[t].project_id # None
         THEN is_project_owner(tasks[t].project_id, u)
              \/ Rows(tasks[t].project_id, u) # <<>>
    ELSE FALSE

can_edit_task(t, u) ==
    IF t \notin DOMAIN tasks THEN FALSE
    ELSE IF tasks[t].user_id = u THEN TRUE
    ELSE IF tasks[t].owner_id = u THEN TRUE
    ELSE IF tasks[t].project_id # None
         THEN is_project_owner(tasks[t].project_id, u)
              \/ is_project_admin(tasks[t].project_id, u)
    ELSE FALSE

can_assign_task(t, u) ==
    IF t \notin DOMAIN tasks THEN FALSE
    ELSE IF u \in users /\ u \in admins THEN TRUE
    ELSE IF tasks[t].project_id # None
         THEN is_project_owner(tasks[t].project_id, u)
              \/ is_project_admin(tasks[t].project_id, u)
    ELSE FALSE

can_unassign_task(t, u) ==
    IF t \notin DOMAIN tasks THEN FALSE
    ELSE IF tasks[t].owner_id = u THEN TRUE
    ELSE IF tasks[t].user_id = u THEN TRUE
    ELSE IF u \in users /\ u \in admins THEN TRUE
    ELSE IF tasks[t].project_id # None
         THEN is_project_owner(tasks[t].project_id, u)
              \/ is_project_admin(tasks[t].project_id, u)
    ELSE FALSE

\* ------------------------------------------------ request handlers: tasks
\* routers/tasks.py.  `c` is current_user.id, resolved from the bearer token
\* before the handler runs; a handler's result is its status code and the
\* tasks table it leaves.

Unset == "unset"
TaskUpdate == [status : TaskStatus \cup {Unset}, total_minutes : {-1, 0, MaxMinutes}]

Reply(code, tbl) == [code |-> code, tasks |-> tbl]

\* FOREIGN KEY tasks.owner_id -> users.id (nullable)
OwnerFkOk(o) == o = None \/ o \in users

\* mutant: the endpoint without the is_admin override
get_task_NoOverride(c, t) ==
    IF ~can_view_task(t, c) THEN Reply(403, tasks)
    ELSE IF t \notin DOMAIN tasks THEN Reply(404, tasks)
    ELSE Reply(200, tasks)

get_task(c, t) ==
    IF ~can_view_task(t, c) /\ c \notin admins THEN Reply(403, tasks)
    ELSE IF t \notin DOMAIN tasks THEN Reply(404, tasks)
    ELSE Reply(200, tasks)

\* mutant: the update as it would run were owner_id a declared, unset field
ApplyTaskUpdate_Declared(c, t, upd) ==
    LET s1 == IF upd.status # Unset THEN [tasks[t] EXCEPT !.status = upd.status]
              ELSE tasks[t]
        s2 == IF upd.total_minutes # -1
              THEN [s1 EXCEPT !.total_minutes = upd.total_minutes] ELSE s1
    IN Reply(200, [tasks EXCEPT ![t] = s2])

\* the PATCH and PUT bodies are the same code; task_update.owner_id is read
\* first, and TaskUpdate declares no such field: the read raises
\* AttributeError, which the logging middleware turns into a 500
ApplyTaskUpdate(c, t, upd) ==
    IF "owner_id" \notin TaskUpdateFields THEN Reply(500, tasks)
    ELSE LET s1 == IF upd.status # Unset THEN [tasks[t] EXCEPT !.status = upd.status]
                   ELSE tasks[t]
             s2 == IF upd.total_minutes # -1
                   THEN [s1 EXCEPT !.total_minutes = upd.total_minutes] ELSE s1
         IN Reply(200, [tasks EXCEPT ![t] = s2])

partial_update_task(c, t, upd) ==
    IF ~can_edit_task(t, c) /\ c \notin admins THEN Reply(403, tasks)
    ELSE IF t \notin DOMAIN tasks THEN Reply(404, tasks)
    ELSE ApplyTaskUpdate(c, t, upd)

update_task_endpoint(c, t, upd) ==
    IF ~can_edit_task(t, c) /\ c \notin admins THEN Reply(403, tasks)
    ELSE IF t \notin DOMAIN tasks THEN Reply(404, tasks)
    ELSE ApplyTaskUpdate(c, t, upd)

update_task_status(c, t, s) ==
    IF ~can_edit_task(t, c) /\ c \notin admins THEN Reply(403, tasks)
    ELSE IF t \notin DOMAIN tasks THEN Reply(404, tasks)
    ELSE Reply(200, [tasks EXCEPT ![t].status = s])

\* mutant: the handler storing the minutes of the request, not the sum
add_time_to_task_Set(c, t, m) ==
    IF m < 0 THEN Reply(422, tasks)
    ELSE IF ~can_edit_task(t, c) /\ c \notin admins THEN Reply(403, tasks)
    ELSE IF t \notin DOMAIN tasks THEN Reply(404, tasks)
    ELSE Reply(200, [tasks EXCEPT ![t].total_minutes = m])

\* minutes: int = Query(..., ge=0): a negative value is refused by validation
add_time_to_task(c, t, m) ==
    IF m < 0 THEN Reply(422, tasks)
    ELSE IF ~can_edit_task(t, c) /\ c \notin admins THEN Reply(403, tasks)
    ELSE IF t \notin DOMAIN tasks THEN Reply(404, tasks)
    ELSE Reply(200, [tasks EXCEPT ![t].total_minutes = @ + m])

assign_task(c, t, o) ==
    IF t \notin DOMAIN tasks THEN Reply(404, tasks)
    ELSE IF o = None /\ ~can_unassign_task(t, c) THEN Reply(403, tasks)
    ELSE IF o # None /\ ~can_assign_task(t, c) THEN Reply(403, tasks)
    ELSE IF ~OwnerFkOk(o) THEN Reply(500, tasks)
    ELSE Reply(200, [tasks EXCEPT ![t].owner_id = o])

delete_task_endpoint(c, t) ==
    IF ~can_edit_task(t, c) /\ c \notin admins THEN Reply(403, tasks)
    ELSE IF t \notin DOMAIN tasks THEN Reply(404, tasks)
    ELSE Reply(204, [x \in DOMAIN tasks \ {t} |-> tasks[x]])

\* mutant: owner_id stored as given
create_task_NoDefault(c, p, o) ==
    [x \in DOMAIN tasks \cup {nextTask} |->
        IF x = nextTask
        THEN [user_id |-> c, owner_id |-> o,
              project_id |-> p, status |-> "todo", total_minutes |-> 0]
        ELSE tasks[x]]

\* crud/task.py create_task: owner_id defaults to the creator
create_task(c, p, o) ==
    [x \in DOMAIN tasks \cup {nextTask} |->
        IF x = nextTask
        THEN [user_id |-> c, owner_id |-> IF o # None THEN o ELSE c,
              project_id |-> p, status |-> "todo", total_minutes |-> 0]
        ELSE tasks[x]]

create_task_endpoint(c, p, o) ==
    IF p # None /\ ~is_project_member(p, c) /\ c \notin admins THEN Reply(403, tasks)
    ELSE IF o # None /\ o # c
            /\ ~(c \in admins
                 \/ (p # None /\ (is_project_owner(p, c) \/ is_project_admin(p, c))))
         THEN Reply(403, tasks)
    ELSE IF (p # None /\ p \notin DOMAIN projects) \/ ~OwnerFkOk(o) THEN Reply(500, tasks)
    ELSE Reply(201, create_task(c, p, o))

Answer(op, c, r) ==
    /\ last' = Handled(op, c, r.code)
    /\ tasks' = r.tasks

GetTask ==
    \E c \in users, t \in TaskIds :
        /\ Answer("get_task", c, get_task(c, t))
        /\ UNCHANGED <<users, admins, projects, members, creating, nextProject, nextTask, adding, emails, nextUser, issued>>

PartialUpdateTask ==
    \E c \in users, t \in TaskIds, upd \in TaskUpdate :
        /\ Answer("partial_update_task", c, partial_update_task(c, t, upd))
        /\ UNCHANGED <<users, admins, projects, members, creating, nextProject, nextTask, adding, emails, nextUser, issued>>

UpdateTask ==
    \E c \in users, t \in TaskIds, upd \in TaskUpdate :
        /\ Answer("update_task_endpoint", c, update_task_endpoint(c, t, upd))
        /\ UNCHANGED <<users, admins, projects, members, creating, nextProject, nextTask, adding, emails, nextUser, issued>>

UpdateTaskStatus ==
    \E c \in users, t \in TaskIds, s \in TaskStatus :
        /\ Answer("update_task_status", c, update_task_status(c, t, s))
        /\ UNCHANGED <<users, admins, projects, members, creating, nextProject, nextTask, adding, emails, nextUser, issued>>

AddTimeToTask ==
    \E c \in users, t \in TaskIds, m \in -1..MaxMinutes :
        /\ t \in DOMAIN tasks => tasks[t].total_minutes + m <= MaxMinutes
        /\ Answer("add_time_to_task", c, add_time_to_task(c, t, m))
        /\ UNCHANGED <<users, admins, projects, members, creating, nextProject, nextTask, adding, emails, nextUser, issued>>

AssignTask ==
    \E c \in users, t \in TaskIds, o \in UserIds \cup {None} :
        /\ Answer("assign_task", c, assign_task(c, t, o))
        /\ UNCHANGED <<users, admins, projects, members, creating, nextProject, nextTask, adding, emails, nextUser, issued>>

DeleteTask ==
    \E c \in users, t \in TaskIds :
        /\ Answer("delete_task_endpoint", c, delete_task_endpoint(c, t))
        /\ UNCHANGED <<users, admins, projects, members, creating, nextProject, nextTask, adding, emails, nextUser, issued>>

CreateTask ==
    \E c \in users, p \in ProjectIds \cup {None}, o \in UserIds \cup {None} :
        /\ nextTask <= MaxTasks
        /\ LET r == create_task_endpoint(c, p, o)
           IN /\ Answer("create_task_endpoint", c, r)
              /\ nextTask' = IF r.code = 201 THEN nextTask + 1 ELSE nextTask
        /\ UNCHANGED <<users, admins, projects, members, creating, nextProject, adding, emails, nextUser, issued>>

\* ------------------------------- request handlers: projects and members
\* crud/project.py create_project: the project row is committed first, the
\* OWNER row of its creator in a second commit.  Between the two the store is
\* visible to every other request, and the second commit can fail.
CreateProjectBegin ==
    \E c \in users :
        /\ nextProject <= MaxProjects
        /\ projects' = [x \in DOMAIN projects \cup {nextProject} |->
                           IF x = nextProject THEN [owner_id |-> c] ELSE projects[x]]
        /\ creating' = creating \cup {nextProject}
        /\ nextProject' = nextProject + 1
        /\ UNCHANGED <<users, admins, members, tasks, nextTask, last, adding, emails, nextUser, issued>>

\* the second commit; its INSERT violates the foreign key when the project
\* row was deleted in between
create_project_commit2(p) ==
    IF p \notin DOMAIN projects THEN [code |-> 500, members |-> members]
    ELSE [code |-> 201,
          members |-> [members EXCEPT ![<<p, projects[p].owner_id>>] = Append(@, OWNER)]]

CreateProjectFinish ==
    \E p \in creating :
        /\ LET r == create_project_commit2(p)
           IN /\ members' = r.members
              /\ last' = Handled("create_project_endpoint", None, r.code)
        /\ creating' = creating \ {p}
        /\ UNCHANGED <<users, admins, projects, tasks, nextProject, nextTask, adding, emails, nextUser, issued>>

\* the second commit raises (connection lost, worker killed): the project row
\* of the first commit stays
CreateProjectFail ==
    \E p \in creating :
        /\ creating' = creating \ {p}
        /\ last' = Handled("create_project_endpoint", None, 500)
        /\ UNCHANGED <<users, admins, projects, members, tasks, nextProject, nextTask, adding, emails, nextUser, issued>>

\* create_project run to completion with no other request in between
CreateProject ==
    \E c \in users :
        /\ nextProject <= MaxProjects
        /\ creating = {}
        /\ projects' = [x \in DOMAIN projects \cup {nextProject} |->
                           IF x = nextProject THEN [owner_id |-> c] ELSE projects[x]]
        /\ members' = [members EXCEPT ![<<nextProject, c>>] = Append(@, OWNER)]
        /\ nextProject' = nextProject + 1
        /\ last' = Handled("create_project_endpoint", c, 201)
        /\ UNCHANGED <<users, admins, tasks, creating, nextTask, adding, emails, nextUser, issued>>

\* relationship cascades of models/project.py: members and tasks go with the project
CascadeProjects(ps) ==
    [projects |-> [x \in DOMAIN projects \ ps |-> projects[x]],
     members |-> [k \in DOMAIN members |-> IF k[1] \in ps THEN <<>> ELSE members[k]],
     tasks |-> [x \in {y \in DOMAIN tasks : tasks[y].project_id \notin ps} |-> tasks[x]]]

Same == [projects |-> projects, members |-> members, tasks |-> tasks]

delete_project_endpoint(c, p) ==
    IF p \notin DOMAIN projects THEN [code |-> 404, db |-> Same]
    ELSE IF ~is_project_owner(p, c) /\ c \notin admins THEN [code |-> 403, db |-> Same]
    ELSE [code |-> 204, db |-> CascadeProjects({p})]

get_project_endpoint(c, p) ==
    IF p \notin DOMAIN projects THEN 404
    ELSE IF ~is_project_member(p, c) /\ c \notin admins THEN 403
    ELSE 200

\* PUT /projects/{id}: name and description only (ProjectUpdate), none of
\* which the store here keeps
update_project_endpoint(c, p) ==
    IF p \notin DOMAIN projects THEN 404
    ELSE IF ~is_project_admin(p, c) /\ c \notin admins THEN 403
    ELSE 200

list_project_members(c, p) ==
    IF p \notin DOMAIN projects THEN 404
    ELSE IF ~is_project_member(p, c) /\ c \notin admins THEN 403
    ELSE 200

add_project_member(c, p, u, role) ==
    IF p \notin DOMAIN projects THEN [code |-> 404, members |-> members]
    ELSE IF ~can_manage_members(p, c) /\ c \notin admins
         THEN [code |-> 403, members |-> members]
    ELSE IF Rows(p, u) # <<>> THEN [code |-> 400, members |-> members]
    ELSE IF u \notin users THEN [code |-> 500, members |-> members]
    ELSE [code |-> 201, members |-> [members EXCEPT ![<<p, u>>] = Append(@, role)]]

\* mutant: the handler without its last check, the role of the row found
remove_project_member_NoOwnerCheck(c, p, u, i, j) ==
    IF p \notin DOMAIN projects THEN [code |-> 404, members |-> members]
    ELSE IF c = u /\ get_user_role(p, u, i) = OWNER
         THEN [code |-> 403, members |-> members]
    ELSE IF c # u /\ ~can_manage_members(p, c) /\ c \notin admins
         THEN [code |-> 403, members |-> members]
    ELSE IF j = 0 THEN [code |-> 404, members |-> members]
    ELSE [code |-> 204, members |-> [members EXCEPT ![<<p, u>>] = RemoveAt(@, j)]]

\* `i` is the row get_user_role's lookup returns, `j` the row the handler's
\* own lookup returns (0: the pair has no row)
remove_project_member(c, p, u, i, j) ==
    IF p \notin DOMAIN projects THEN [code |-> 404, members |-> members]
    ELSE IF c = u /\ get_user_role(p, u, i) = OWNER
         THEN [code |-> 403, members |-> members]
    ELSE IF c # u /\ ~can_manage_members(p, c) /\ c \notin admins
         THEN [code |-> 403, members |-> members]
    ELSE IF j = 0 THEN [code |-> 404, members |-> members]
    ELSE IF Rows(p, u)[j] = OWNER THEN [code |-> 403, members |-> members]
    ELSE [code |-> 204, members |-> [members EXCEPT ![<<p, u>>] = RemoveAt(@, j)]]

\* `role` is member_update.role, Unset when the body leaves it out
update_project_member_role(c, p, u, role, j) ==
    IF p \notin DOMAIN projects THEN [code |-> 404, members |-> members]
    ELSE IF ~is_project_owner(p, c) /\ c \notin admins
         THEN [code |-> 403, members |-> members]
    ELSE IF j = 0 THEN [code |-> 404, members |-> members]
    ELSE IF Rows(p, u)[j] = OWNER THEN [code |-> 403, members |-> members]
    ELSE IF role = OWNER THEN [code |-> 403, members |-> members]
    ELSE IF role = Unset THEN [code |-> 200, members |-> members]
    ELSE [code |-> 200, members |-> [members EXCEPT ![<<p, u>>][j] = role]]

\* mutant: the user's project_members rows outlive the user
CascadeUser_KeepRows(u) ==
    LET ps == {x \in DOMAIN projects : projects[x].owner_id = u}
        d == CascadeProjects(ps)
        keep == {y \in DOMAIN d.tasks : d.tasks[y].user_id # u}
    IN [projects |-> d.projects,
        members |-> d.members,
        tasks |-> [x \in keep |-> IF d.tasks[x].owner_id = u
                                  THEN [d.tasks[x] EXCEPT !.owner_id = None]
                                  ELSE d.tasks[x]]]

\* routers/users.py delete_user behind get_current_admin_user; the cascades of
\* models/user.py: the user's tasks, projects and memberships go, the tasks
\* assigned to the user lose their owner_id
CascadeUser(u) ==
    LET ps == {x \in DOMAIN projects : projects[x].owner_id = u}
        d == CascadeProjects(ps)
        keep == {y \in DOMAIN d.tasks : d.tasks[y].user_id # u}
    IN [projects |-> d.projects,
        members |-> [k \in DOMAIN members |-> IF k[2] = u THEN <<>> ELSE d.members[k]],
        tasks |-> [x \in keep |-> IF d.tasks[x].owner_id = u
                                  THEN [d.tasks[x] EXCEPT !.owner_id = None]
                                  ELSE d.tasks[x]]]

delete_user(c, u) ==
    IF c \notin admins THEN [code |-> 403, db |-> Same]
    ELSE IF u \notin users THEN [code |-> 404, db |-> Same]
    ELSE IF u = c THEN [code |-> 400, db |-> Same]
    ELSE [code |-> 204, db |-> CascadeUser(u)]

GetProject ==
    \E c \in users, p \in ProjectIds :
        /\ last' = Handled("get_project_endpoint", c, get_project_endpoint(c, p))
        /\ UNCHANGED store

UpdateProject ==
    \E c \in users, p \in ProjectIds :
        /\ last' = Handled("update_project_endpoint", c, update_project_endpoint(c, p))
        /\ UNCHANGED store

ListProjectMembers ==
    \E c \in users, p \in ProjectIds :
        /\ last' = Handled("list_project_members", c, list_project_members(c, p))
        /\ UNCHANGED store

DeleteProject ==
    \E c \in users, p \in ProjectIds :
        LET r == delete_project_endpoint(c, p)
        IN /\ projects' = r.db.projects
           /\ members' = r.db.members
           /\ tasks' = r.db.tasks
           /\ last' = Handled("delete_project_endpoint", c, r.code)
           /\ UNCHANGED <<users, admins, creating, nextProject, nextTask, adding, emails, nextUser, issued>>

AddProjectMember ==
    \E c \in users, p \in ProjectIds, u \in UserIds, role \in ProjectRole :
        LET r == add_project_member(c, p, u, role)
        IN /\ members' = r.members
           /\ last' = Handled("add_project_member", c, r.code)
           /\ UNCHANGED <<users, admins, projects, tasks, creating, nextProject, nextTask, adding, emails, nextUser, issued>>

RemoveProjectMember ==
    \E c \in users, p \in ProjectIds, u \in UserIds :
        \E i \in FirstRow(p, u), j \in FirstRow(p, u) :
            LET r == remove_project_member(c, p, u, i, j)
            IN /\ members' = r.members
               /\ last' = Handled("remove_project_member", c, r.code)
               /\ UNCHANGED <<users, admins, projects, tasks, creating, nextProject, nextTask, adding, emails, nextUser, issued>>

UpdateProjectMemberRole ==
    \E c \in users, p \in ProjectIds, u \in UserIds, role \in ProjectRole \cup {Unset} :
        \E j \in FirstRow(p, u) :
            LET r == update_project_member_role(c, p, u, role, j)
            IN /\ members' = r.members
               /\ last' = Handled("update_project_member_role", c, r.code)
               /\ UNCHANGED <<users, admins, projects, tasks, creating, nextProject, nextTask, adding, emails, nextUser, issued>>

DeleteUser ==
    \E c \in users, u \in UserIds :
        LET r == delete_user(c, u)
        IN /\ users' = IF r.code = 204 THEN users \ {u} ELSE users
           /\ emails' = [x \in users' |-> emails[x]]
           /\ admins' = IF r.code = 204 THEN admins \ {u} ELSE admins
           /\ projects' = r.db.projects
           /\ members' = r.db.members
           /\ tasks' = r.db.tasks
           /\ last' = Handled("delete_user", c, r.code)
           /\ UNCHANGED <<creating, nextProject, nextTask, adding, nextUser, issued>>

\* the membership store and its endpoints: projects, members, user deletion
NextMembers ==
    \/ CreateProjectBegin
    \/ CreateProjectFinish
    \/ CreateProjectFail
    \/ GetProject
    \/ UpdateProject
    \/ ListProjectMembers
    \/ DeleteProject
    \/ AddProjectMember
    \/ RemoveProjectMember
    \/ UpdateProjectMemberRole
    \/ DeleteUser

SpecMembers == Init /\ [][NextMembers]_vars

\* the task endpoints over projects with members
NextTasks ==
    \/ CreateProject
    \/ ListProjectMembers
    \/ DeleteProject
    \/ AddProjectMember
    \/ UpdateProjectMemberRole
    \/ DeleteUser
    \/ CreateTask
    \/ GetTask
    \/ PartialUpdateTask
    \/ UpdateTask
    \/ UpdateTaskStatus
    \/ AddTimeToTask
    \/ AssignTask
    \/ DeleteTask

\* a database holding the seeded admin and one registered user
InitTasks ==
    /\ users = {1, 2}
    /\ admins = SeedAdmins
    /\ emails = [u \in {1, 2} |-> SeedEmails[u]]
    /\ nextUser = 4
    /\ issued = {}
    /\ projects = <<>>
    /\ members = NoRows
    /\ tasks = <<>>
    /\ creating = {}
    /\ adding = NoRequests
    /\ nextProject = 1
    /\ nextTask = 1
    /\ last = Handled("init", None, 0)

SpecTasks == InitTasks /\ [][NextTasks]_vars

\* add_time_to_task served by several workers.  The handler loads the task
\* (SELECT), adds the minutes to the loaded total in Python and commits
\* UPDATE tasks SET total_minutes = <that sum>; nothing locks the row or
\* compares a version.  A request refused by validation, permission or
\* existence is answered at once.
AddTimeRead ==
    \E w \in Workers, c \in users, t \in TaskIds, m \in -1..MaxMinutes :
        /\ adding[w] = Idle
        /\ t \in DOMAIN tasks => tasks[t].total_minutes + m <= MaxTotal
        /\ LET r == add_time_to_task(c, t, m)
           IN IF r.code = 200
              THEN /\ adding' = [adding EXCEPT ![w] =
                                    [caller |-> c, task |-> t, minutes |-> m,
                                     read |-> tasks[t].total_minutes]]
                   /\ UNCHANGED last
              ELSE /\ last' = Handled("add_time_to_task", c, r.code)
                   /\ UNCHANGED adding
        /\ UNCHANGED <<users, admins, projects, members, tasks, creating, nextProject, nextTask, emails, nextUser, issued>>

\* mutant: the commit as UPDATE ... SET total_minutes = total_minutes + m
add_time_commit_Atomic(q) ==
    IF q.task \notin DOMAIN tasks THEN Reply(500, tasks)
    ELSE Reply(200, [tasks EXCEPT ![q.task].total_minutes = @ + q.minutes])

\* db.commit() of request q; the UPDATE of a row deleted meanwhile matches
\* nothing (StaleDataError)
add_time_commit(q) ==
    IF q.task \notin DOMAIN tasks THEN Reply(500, tasks)
    ELSE Reply(200, [tasks EXCEPT ![q.task].total_minutes = q.read + q.minutes])

AddTimeCommit ==
    \E w \in Workers :
        /\ adding[w] # Idle
        /\ Answer("add_time_to_task", adding[w].caller, add_time_commit(adding[w]))
        /\ adding' = [adding EXCEPT ![w] = Idle]
        /\ UNCHANGED <<users, admins, projects, members, creating, nextProject, nextTask, emails, nextUser, issued>>

\* add-time requests of several workers on personal tasks
NextAddTime ==
    \/ CreateTask
    \/ DeleteTask
    \/ AddTimeRead
    \/ AddTimeCommit

SpecAddTime == InitTasks /\ [][NextAddTime]_vars

\* ------------------------------------------- request handlers: accounts
\* routers/auth.py, routers/users.py.  A handler's result is its status code
\* and the email and is_admin columns of table users it leaves.
UserUpdate == [email : Emails \cup {Unset}, is_admin : {Unset, "true", "false"}]

Users(code, em, ad) == [code |-> code, emails |-> em, admins |-> ad]

EmailTaken(e) == \E x \in users : emails[x] = e

\* mutant: registration without the lookup of the email
register_user_NoLookup(e, match) ==
    IF ~match THEN Users(400, emails, admins)
    ELSE Users(201, [x \in users \cup {nextUser} |-> IF x = nextUser THEN e ELSE emails[x]],
               admins)

\* `match` is user_data.passwords_match()
register_user(e, match) ==
    IF ~match THEN Users(400, emails, admins)
    ELSE IF EmailTaken(e) THEN Users(400, emails, admins)
    ELSE Users(201, [x \in users \cup {nextUser} |-> IF x = nextUser THEN e ELSE emails[x]],
               admins)

\* the flag as the request leaves it
SetAdmin(u, flag) ==
    IF flag = "true" THEN admins \cup {u}
    ELSE IF flag = "false" THEN admins \ {u}
    ELSE admins

\* mutant: the profile update applies is_admin for every caller
update_user_profile_AnyCaller(c, upd) ==
    IF upd.email # Unset /\ upd.email # emails[c] /\ EmailTaken(upd.email)
    THEN Users(400, emails, admins)
    ELSE Users(200,
               IF upd.email # Unset THEN [emails EXCEPT ![c] = upd.email] ELSE emails,
               SetAdmin(c, upd.is_admin))

update_user_profile(c, upd) ==
    IF upd.email # Unset /\ upd.email # emails[c] /\ EmailTaken(upd.email)
    THEN Users(400, emails, admins)
    ELSE Users(200,
               IF upd.email # Unset THEN [emails EXCEPT ![c] = upd.email] ELSE emails,
               IF c \in admins THEN SetAdmin(c, upd.is_admin) ELSE admins)

\* behind get_current_admin_user
update_user(c, u, upd) ==
    IF c \notin admins THEN Users(403, emails, admins)
    ELSE IF u \notin users THEN Users(404, emails, admins)
    ELSE IF upd.email # Unset /\ upd.email # emails[u] /\ EmailTaken(upd.email)
    THEN Users(400, emails, admins)
    ELSE Users(200,
               IF upd.email # Unset THEN [emails EXCEPT ![u] = upd.email] ELSE emails,
               SetAdmin(u, upd.is_admin))

RegisterUser ==
    \E e \in Emails, match \in BOOLEAN :
        /\ nextUser \in UserIds
        /\ LET r == register_user(e, match)
           IN /\ emails' = r.emails
              /\ users' = DOMAIN r.emails
              /\ nextUser' = IF r.code = 201 THEN nextUser + 1 ELSE nextUser
              /\ last' = Handled("register_user", None, r.code)
        /\ UNCHANGED <<admins, projects, members, tasks, creating, adding, nextProject, nextTask, issued>>

UpdateUserProfile ==
    \E c \in users, upd \in UserUpdate :
        LET r == update_user_profile(c, upd)
        IN /\ emails' = r.emails
           /\ admins' = r.admins
           /\ last' = Handled("update_user_profile", c, r.code)
           /\ UNCHANGED <<users, projects, members, tasks, creating, adding, nextProject, nextTask, nextUser, issued>>

UpdateUser ==
    \E c \in users, u \in UserIds, upd \in UserUpdate :
        LET r == update_user(c, u, upd)
        IN /\ emails' = r.emails
           /\ admins' = r.admins
           /\ last' = Handled("update_user", c, r.code)
           /\ UNCHANGED <<users, projects, members, tasks, creating, adding, nextProject, nextTask, nextUser, issued>>

\* ------------------------------------------------------ authentication
\* auth/jwt_handler.py.  A bearer token as the server sees it: whether it
\* parses as a JWT, whether its signature verifies under SECRET_KEY, whether
\* its exp has passed, and its "sub" claim (None: absent).
Tokens == [wellformed : BOOLEAN, signed : BOOLEAN, expired : BOOLEAN,
           sub : Emails \cup {Unset}]

\* mutant: verification that does not look at exp
verify_token_NoExpiry(tok) ==
    IF ~tok.wellformed \/ ~tok.signed THEN Unset
    ELSE tok.sub

\* the email of the token, Unset when credentials_exception is raised:
\* jwt.decode raises JWTError on a token that does not parse, whose signature
\* does not verify or whose exp has passed; a payload without "sub" is refused
verify_token(tok) ==
    IF ~tok.wellformed \/ ~tok.signed \/ tok.expired THEN Unset
    ELSE tok.sub

\* the user of the token and the status of the dependency (401: refused)
get_current_user(tok) ==
    LET e == verify_token(tok)
    IN IF e = Unset \/ ~EmailTaken(e) THEN [code |-> 401, user |-> None]
       ELSE [code |-> 200, user |-> CHOOSE x \in users : emails[x] = e]

\* endpoints behind get_current_user
AuthenticatedEndpoints ==
    {"get_task", "partial_update_task", "update_task_endpoint", "update_task_status",
     "add_time_to_task", "assign_task", "delete_task_endpoint", "create_task_endpoint",
     "create_project_endpoint", "get_project_endpoint", "update_project_endpoint",
     "delete_project_endpoint", "list_project_members", "add_project_member",
     "remove_project_member", "update_project_member_role",
     "update_user_profile", "update_user", "delete_user"}

\* a request whose token get_current_user refuses: the dependency raises
\* before the handler is called
Unauthorized ==
    \E op \in AuthenticatedEndpoints, tok \in Tokens :
        /\ get_current_user(tok).code = 401
        /\ last' = Handled(op, None, 401)
        /\ UNCHANGED store

\* a database whose only user is the administrator
InitUsers ==
    /\ users = SeedAdmins
    /\ admins = SeedAdmins
    /\ emails = [u \in SeedAdmins |-> SeedEmails[u]]
    /\ nextUser = 2
    /\ issued = {}
    /\ projects = <<>>
    /\ members = NoRows
    /\ tasks = <<>>
    /\ creating = {}
    /\ adding = NoRequests
    /\ nextProject = 1
    /\ nextTask = 1
    /\ last = Handled("init", None, 0)

\* the account endpoints
NextUsers ==
    \/ RegisterUser
    \/ UpdateUserProfile
    \/ UpdateUser
    \/ DeleteUser
    \/ Unauthorized

SpecUsers == InitUsers /\ [][NextUsers]_vars

\* ------------------------------------------------ GET /tasks/ (the list)
\* routers/tasks.py list_user_tasks.  The queries of crud/task.py carry no
\* ORDER BY: `order`, the order in which the database returns the rows of
\* table tasks, is any permutation of them.
Perms(S) ==
    {q \in [1..Cardinality(S) -> S] : \A i, j \in 1..Cardinality(S) : q[i] = q[j] => i = j}

\* the rows the branch taken selects: get_project_owned_tasks,
\* get_project_tasks_for_members, get_owned_tasks, get_user_tasks
Selected(c, p, o, t) ==
    IF p # None
    THEN IF o # None THEN tasks[t].project_id = p /\ tasks[t].owner_id = o
         ELSE tasks[t].project_id = p
    ELSE IF o # None THEN tasks[t].owner_id = o
         ELSE tasks[t].user_id = c

\* .offset(skip).limit(limit)
OffsetLimit(rows, skip, limit) ==
    SubSeq(rows, skip + 1, IF skip + limit < Len(rows) THEN skip + limit ELSE Len(rows))

valid_sort_fields == {"created_at", "total_minutes", "status"}

\* getattr(x, sort_by) or '': created_at grows with the id here (ids are
\* handed out in creation order), a str Enum compares as its value, and a
\* total_minutes of 0 becomes the empty string (-1 stands for it)
SortKey(t, f) ==
    IF f = "created_at" THEN t
    ELSE IF f = "status"
         THEN (IF tasks[t].status = "done" THEN 1
               ELSE IF tasks[t].status = "in_progress" THEN 2 ELSE 3)
    ELSE IF tasks[t].total_minutes = 0 THEN -1 ELSE tasks[t].total_minutes

\* comparing '' with an int raises TypeError
KeysComparable(page, f) ==
    f = "total_minutes"
        => \A i, j \in DOMAIN page :
               (tasks[page[i]].total_minutes = 0) = (tasks[page[j]].total_minutes = 0)

RECURSIVE Sorted(_, _, _)
\* list.sort(key=..., reverse=...): stable in both directions
Sorted(page, f, asc) ==
    IF Len(page) <= 1 THEN page
    ELSE LET x == Head(page)
             r == Sorted(Tail(page), f, asc)
             goes(y) == IF asc THEN SortKey(x, f) <= SortKey(y, f)
                        ELSE SortKey(x, f) >= SortKey(y, f)
             k == Cardinality({i \in DOMAIN r : \A j \in 1..i : ~goes(r[j])})
         IN SubSeq(r, 1, k) \o <<x>> \o SubSeq(r, k + 1, Len(r))

\* the sort of the page; when it raises the handler goes on with the page as
\* it was (except Exception: pass)
SortPage(page, sort_by, sort_order) ==
    IF sort_by \in valid_sort_fields /\ KeysComparable(page, sort_by)
    THEN Sorted(page, sort_by, sort_order = "asc")
    ELSE page

Listing(code, items, total, limit) ==
    [code |-> code, items |-> items, total |-> total,
     pages |-> (total + limit - 1) \div limit]

list_user_tasks(c, p, o, st, skip, limit, sort_by, sort_order, order) ==
    IF p # None /\ ~is_project_member(p, c) /\ c \notin admins
    THEN [code |-> 403, items |-> <<>>, total |-> 0, pages |-> 0]
    ELSE LET rows == SelectSeq(order, LAMBDA t : Selected(c, p, o, t))
             page == OffsetLimit(rows, skip, limit)
             kept == SelectSeq(page, LAMBDA t : tasks[t].status = st)
         IN IF st # Unset
            THEN Listing(200, SortPage(kept, sort_by, sort_order), Len(kept), limit)
            ELSE Listing(200, SortPage(page, sort_by, sort_order), Len(rows), limit)

SortFields == valid_sort_fields \cup {"priority"}

ListUserTasks ==
    \E c \in users, p \in ProjectIds \cup {None}, o \in users \cup {None},
       st \in TaskStatus \cup {Unset}, skip \in 0..1, limit \in 1..MaxListed,
       sort_by \in SortFields, sort_order \in {"asc", "desc"},
       order \in Perms(DOMAIN tasks) :
        /\ last' = Handled("list_user_tasks", c,
                           list_user_tasks(c, p, o, st, skip, limit, sort_by,
                                           sort_order, order).code)
        /\ UNCHANGED store

\* the tasks a store may hold, for the list to run over: as create_task
\* leaves them when owner_id is not given, then moved on in status and time
ListedTask ==
    {[user_id |-> u, owner_id |-> u, project_id |-> p, status |-> st, total_minutes |-> m] :
        u \in {1, 2}, p \in {None, 1}, st \in {"todo", "done"}, m \in 0..MaxMinutes}

\* a store the task endpoints have filled: the administrator and one user,
\* the administrator's project, of which the user may be a member, and
\* MaxListed tasks
InitList ==
    /\ users = {1, 2}
    /\ admins = SeedAdmins
    /\ emails = [u \in {1, 2} |-> SeedEmails[u]]
    /\ nextUser = 4
    /\ issued = {}
    /\ projects = <<[owner_id |-> 1]>>
    /\ \E r \in {<<>>, <<MEMBER>>} :
          members = [NoRows EXCEPT ![<<1, 1>>] = <<OWNER>>, ![<<1, 2>>] = r]
    /\ tasks \in [1..MaxListed -> ListedTask]
    /\ creating = {}
    /\ adding = NoRequests
    /\ nextProject = 2
    /\ nextTask = MaxListed + 1
    /\ last = Handled("init", None, 0)

NextList ==
    \/ ListUserTasks
    \/ GetTask

SpecList == InitList /\ [][NextList]_vars

\* ---- login (routers/auth.py) ----

\* the bearer token of an issued access token, inside its 30 minutes
Bearer(t) == [wellformed |-> TRUE, signed |-> TRUE, expired |-> FALSE, sub |-> t.sub]

\* `ok` is verify_password(...); the token's subject is the user's email
login_user(e, ok) ==
    IF ~EmailTaken(e) \/ ~ok THEN [code |-> 401, user |-> None, issued |-> issued]
    ELSE LET user == CHOOSE x \in users : emails[x] = e
         IN [code |-> 200, user |-> user,
             issued |-> issued \cup {[sub |-> emails[user], user |-> user]}]

LoginUser ==
    \E e \in Emails, ok \in BOOLEAN :
        LET r == login_user(e, ok)
        IN /\ r.code = 200 => Cardinality(issued) < MaxIssued
           /\ issued' = r.issued
           /\ last' = Handled("login_user", r.user, r.code)
           /\ UNCHANGED <<users, admins, projects, members, tasks, creating, adding, emails, nextProject, nextTask, nextUser>>

\* accounts and their tokens
NextLogin ==
    \/ LoginUser
    \/ RegisterUser
    \/ UpdateUserProfile
    \/ DeleteUser

SpecLogin == InitUsers /\ [][NextLogin]_vars

\* ---- the AI endpoints (routers/ai.py) ----

\* the chat-completions call of one request raises, or returns this text
Raises == "raises"
Contents == {"{\"description\": \"d\"}", "{\"description\": 5}", "[\"a\", \"b\"]",
             "\"ab\"", "7", "Sure, here it is:", ""}

\* the backend as one request meets it: an API key is configured or not, the
\* client can be constructed or not, and the call raises or returns a text
Backends == [configured : BOOLEAN, client : BOOLEAN, reply : Contents \cup {Raises}]

\* json.loads of the texts above
json_loads(text) ==
    CASE text = "{\"description\": \"d\"}" ->
             [ok |-> TRUE, kind |-> "object", value |-> <<"d">>, of |-> "str"]
      [] text = "{\"description\": 5}" ->
             [ok |-> TRUE, kind |-> "object", value |-> <<5>>, of |-> "int"]
      [] text = "[\"a\", \"b\"]" ->
             [ok |-> TRUE, kind |-> "array", value |-> <<"a", "b">>, of |-> "str"]
      [] text = "\"ab\"" ->
             [ok |-> TRUE, kind |-> "string", value |-> <<"a", "b">>, of |-> "str"]
      [] text = "7" ->
             [ok |-> TRUE, kind |-> "number", value |-> <<7>>, of |-> "int"]
      [] OTHER -> [ok |-> FALSE, kind |-> "", value |-> <<>>, of |-> ""]

\* s[:n]
Slice(s, n) ==
    IF n >= 0 THEN SubSeq(s, 1, IF n < Len(s) THEN n ELSE Len(s))
    ELSE SubSeq(s, 1, Len(s) + n)

get_ai_client(b) ==
    IF ~b.configured THEN "None"
    ELSE IF b.client THEN "client" ELSE "AIError"

is_ai_available(b) == get_ai_client(b) = "client"

AIReply(code, ai, body, error) ==
    [raised |-> "", code |-> code, ai_generated |-> ai, body |-> body, error |-> error]

Raised(e) ==
    [raised |-> e, code |-> 0, ai_generated |-> FALSE, body |-> <<>>, error |-> ""]

Titles == {"Add login"}
\* the optional context: absent, empty, or a text
NoContext == "<none>"
Contexts == {NoContext, "", "OAuth"}

generate_fallback_description(title, context) ==
    AIReply(200, FALSE,
            IF context \notin {NoContext, ""}
            THEN <<"Complete the task: ", title, "Additional context: ", context>>
            ELSE <<"Complete the task: ", title>>,
            "")

\* the body of the try block of generate_task_description
DescribeTry(b, title) ==
    IF b.reply = Raises THEN Raised("APIError")
    ELSE LET parsed_response == json_loads(b.reply)
         IN IF ~parsed_response.ok THEN Raised("JSONDecodeError")
            ELSE IF parsed_response.kind # "object" THEN Raised("AttributeError")
            ELSE IF parsed_response.of # "str"
                 THEN Raised("ValidationError")
            ELSE AIReply(200, TRUE, <<title, parsed_response.value[1]>>, "")

\* only a JSONDecodeError is turned into an AIError
AsAIError_OnlyJson(e) == IF e = "JSONDecodeError" THEN "AIError" ELSE e

\* the two except clauses of generate_task_description
AsAIError(e) == "AIError"

generate_task_description(b, title) ==
    IF get_ai_client(b) # "client" THEN Raised("AIError")
    ELSE LET r == DescribeTry(b, title)
         IN IF r.raised # "" THEN Raised(AsAIError(r.raised)) ELSE r

suggest_task_description(b, title, context) ==
    IF is_ai_available(b)
    THEN LET r == generate_task_description(b, title)
         IN IF r.raised = "" THEN r
            ELSE IF r.raised = "AIError"
                 THEN generate_fallback_description(title, context)
            ELSE AIReply(500, FALSE, <<>>, r.raised)
    ELSE generate_fallback_description(title, context)

FallbackTitles(context, count, error) ==
    AIReply(200, FALSE,
            Slice(<<<<"Implement", context>>, <<"Design", context>>,
                    <<"Test", context>>, <<"Document", context>>,
                    <<"Optimize", context>>>>, count),
            error)

suggest_task_titles(b, context, count) ==
    IF ~is_ai_available(b) THEN FallbackTitles(context, count, "")
    ELSE IF b.reply = Raises THEN FallbackTitles(context, count, "APIError")
    ELSE LET suggestions == json_loads(b.reply)
         IN IF ~suggestions.ok THEN FallbackTitles(context, count, "JSONDecodeError")
            ELSE IF suggestions.kind \in {"array", "string"}
                 THEN AIReply(200, TRUE, Slice(suggestions.value, count), "")
            ELSE FallbackTitles(context, count, "TypeError")

Counts == 0..6

AIHandled(op, c, b, request, r) ==
    [op |-> op, caller |-> c, code |-> r.code, backend |-> b,
     request |-> request, reply |-> r]

SuggestTaskDescription ==
    \E c \in users, b \in Backends, title \in Titles, context \in Contexts :
        /\ last' = AIHandled("suggest_task_description", c, b,
                             [title |-> title, context |-> context, count |-> 0],
                             suggest_task_description(b, title, context))
        /\ UNCHANGED store

SuggestTaskTitles ==
    \E c \in users, b \in Backends, context \in Contexts \ {NoContext}, count \in Counts :
        /\ last' = AIHandled("suggest_task_titles", c, b,
                             [title |-> "", context |-> context, count |-> count],
                             suggest_task_titles(b, context, count))
        /\ UNCHANGED store

NextAI ==
    \/ SuggestTaskDescription
    \/ SuggestTaskTitles

SpecAI == InitUsers /\ [][NextAI]_vars

\* requests handled one at a time: create_project completes before the next
NextMembersSeq ==
    \/ CreateProject
    \/ GetProject
    \/ UpdateProject
    \/ ListProjectMembers
    \/ DeleteProject
    \/ AddProjectMember
    \/ RemoveProjectMember
    \/ UpdateProjectMemberRole
    \/ DeleteUser

SpecMembersSeq == Init /\ [][NextMembersSeq]_vars

\* ================================================================ claims
\* the number of rows of the pair (p, u) whose role is OWNER
OwnerCount(tbl, p, u) ==
    Cardinality({i \in DOMAIN tbl[<<p, u>>] : tbl[<<p, u>>][i] = OWNER})

\* C1: on every task endpoint addressed by id, a task id that names no task
\* is answered 404 for every authenticated caller, global admin or not.
C1_MissingTaskIs404 ==
    \A c \in users, t \in TaskIds \ DOMAIN tasks :
        /\ get_task(c, t).code = 404
        /\ delete_task_endpoint(c, t).code = 404
        /\ \A upd \in TaskUpdate : partial_update_task(c, t, upd).code = 404
        /\ \A upd \in TaskUpdate : update_task_endpoint(c, t, upd).code = 404
        /\ \A s \in TaskStatus : update_task_status(c, t, s).code = 404
        /\ \A m \in 0..MaxMinutes : add_time_to_task(c, t, m).code = 404
        /\ \A o \in UserIds \cup {None} : assign_task(c, t, o).code = 404

\* C2: every existing project has exactly one project_members row with role
\* OWNER, and that row belongs to the project's owner_id.
C2_ExactlyOneOwnerRow ==
    \A p \in DOMAIN projects, u \in UserIds :
        OwnerCount(members, p, u) = IF projects[p].owner_id = u THEN 1 ELSE 0

\* C3: a remove-member or update-member-role request whose target row has
\* role OWNER is answered 403 for every caller and leaves project_members as
\* it is; so is an update-member-role request that asks for role OWNER; no
\* request to either endpoint changes which rows have role OWNER.
C3_OwnerRowIsFixed ==
    \A c \in users, p \in ProjectIds, u \in UserIds :
        \A i \in FirstRow(p, u), j \in FirstRow(p, u), role \in ProjectRole \cup {Unset} :
            LET rm == remove_project_member(c, p, u, i, j)
                up == update_project_member_role(c, p, u, role, j)
                denied == [code |-> 403, members |-> members]
                toOwner == j # 0 /\ p \in DOMAIN projects /\ role = OWNER
                ofOwner == j # 0 /\ Rows(p, u)[j] = OWNER
            IN /\ ofOwner => rm = denied /\ up = denied
               /\ toOwner => up = denied
               /\ \A q \in ProjectIds, v \in UserIds :
                     /\ OwnerCount(rm.members, q, v) = OwnerCount(members, q, v)
                     /\ OwnerCount(up.members, q, v) = OwnerCount(members, q, v)

\* a global admin is refused only because the row is the owner's
C3_Witness ==
    /\ last = Handled("remove_project_member", 1, 403)
    /\ 1 \in admins
    /\ \E p \in DOMAIN projects : projects[p].owner_id # 1 /\ HasRole(p, projects[p].owner_id, OWNER)

\* C4: no state has a project row without the OWNER row of its creator.
C4_ProjectHasOwnerRow ==
    \A p \in DOMAIN projects : HasRole(p, projects[p].owner_id, OWNER)

\* C10: is_project_member(P, U) holds exactly when U is P's owner or some
\* project_members row exists for the pair; the owner is always a member.
C10_MemberIffOwnerOrRow ==
    \A p \in DOMAIN projects, u \in users :
        /\ is_project_member(p, u) <=> (projects[p].owner_id = u \/ Rows(p, u) # <<>>)
        /\ projects[p].owner_id = u => get_project_endpoint(u, p) = 200

\* what the claims call a task's relations to a user
IsCreator(t, u) == tasks[t].user_id = u
IsAssignee(t, u) == tasks[t].owner_id = u
InProject(t) == tasks[t].project_id # None
OwnsProjectOf(t, u) == InProject(t) /\ projects[tasks[t].project_id].owner_id = u
RowsInProjectOf(t, u) == IF InProject(t) THEN Rows(tasks[t].project_id, u) ELSE <<>>
AdminOfProjectOf(t, u) == \E i \in DOMAIN RowsInProjectOf(t, u) : RowsInProjectOf(t, u)[i] = ADMIN
OnlyMemberOfProjectOf(t, u) ==
    /\ ~OwnsProjectOf(t, u)
    /\ RowsInProjectOf(t, u) # <<>>
    /\ \A i \in DOMAIN RowsInProjectOf(t, u) : RowsInProjectOf(t, u)[i] = MEMBER

\* C5: can_view_task(T, U) holds exactly when U is T's creator, or T's
\* assignee, or T has a project and U is a member of it (its owner, or a user
\* with a project_members row); creator and assignee can GET the task
\* whatever their membership.
C5_ViewIffCreatorAssigneeMember ==
    \A t \in DOMAIN tasks, u \in users :
        /\ can_view_task(t, u) <=>
              \/ IsCreator(t, u)
              \/ IsAssignee(t, u)
              \/ OwnsProjectOf(t, u)
              \/ RowsInProjectOf(t, u) # <<>>
        /\ IsCreator(t, u) \/ IsAssignee(t, u) => get_task(u, t) = Reply(200, tasks)

\* the assignee, who is no admin, no creator and outside the task's project, got the task
C5_Witness ==
    /\ last.op = "get_task" /\ last.code = 200 /\ last.caller \notin admins
    /\ \E t \in DOMAIN tasks :
          /\ IsAssignee(t, last.caller) /\ ~IsCreator(t, last.caller)
          /\ InProject(t) /\ ~OwnsProjectOf(t, last.caller)
          /\ RowsInProjectOf(t, last.caller) = <<>>

\* the edit endpoints C6 names, refused and without effect
EditRefused(c, t) ==
    /\ delete_task_endpoint(c, t) = Reply(403, tasks)
    /\ \A s \in TaskStatus : update_task_status(c, t, s) = Reply(403, tasks)
    /\ \A m \in 0..MaxMinutes : add_time_to_task(c, t, m) = Reply(403, tasks)

C6_EditIff(t, u) ==
    can_edit_task(t, u) <=>
        \/ IsCreator(t, u)
        \/ IsAssignee(t, u)
        \/ OwnsProjectOf(t, u)
        \/ AdminOfProjectOf(t, u)

\* C6 as claimed: can_edit_task(T, U) holds exactly when U is T's creator, or
\* T's assignee, or owner or ADMIN of T's project; a user with only the MEMBER
\* role in T's project who is neither creator nor assignee can view T, cannot
\* edit it, and gets 403 with T unchanged from the status, time and delete
\* endpoints.
C6_Original ==
    \A t \in DOMAIN tasks, u \in users :
        /\ C6_EditIff(t, u)
        /\ OnlyMemberOfProjectOf(t, u) /\ ~IsCreator(t, u) /\ ~IsAssignee(t, u)
              => can_view_task(t, u) /\ ~can_edit_task(t, u) /\ EditRefused(u, t)

\* C6 amended: the same, the 403 of the three endpoints for such a user who
\* is not a global admin.
C6_EditIffAndMemberRefused ==
    \A t \in DOMAIN tasks, u \in users :
        /\ C6_EditIff(t, u)
        /\ OnlyMemberOfProjectOf(t, u) /\ ~IsCreator(t, u) /\ ~IsAssignee(t, u)
              => /\ can_view_task(t, u) /\ ~can_edit_task(t, u)
                 /\ u \notin admins => EditRefused(u, t)

C6_Witness ==
    /\ last.op = "update_task_status" /\ last.code = 403 /\ last.caller \notin admins
    /\ \E t \in DOMAIN tasks :
          /\ OnlyMemberOfProjectOf(t, last.caller)
          /\ ~IsCreator(t, last.caller) /\ ~IsAssignee(t, last.caller)

\* C7: for a project task B neither created nor is assigned to: while B has
\* only role MEMBER, PATCH /tasks/{id} by B is answered 403 and changes
\* nothing; once the project's owner has updated B's role to ADMIN the same
\* PATCH is answered 200 and the task's status is the requested one.
C7_Patch(b, t, s) == partial_update_task(b, t, [status |-> s, total_minutes |-> -1])

C7_PatchAfterPromotion ==
    [][\A t \in DOMAIN tasks, b \in users \ admins, s \in TaskStatus :
          /\ last'.op = "update_project_member_role" /\ last'.code = 200
          /\ OwnsProjectOf(t, last'.caller)
          /\ ~IsCreator(t, b) /\ ~IsAssignee(t, b)
          /\ OnlyMemberOfProjectOf(t, b)
          /\ AdminOfProjectOf(t, b)'
          => /\ C7_Patch(b, t, s) = Reply(403, tasks)
             /\ C7_Patch(b, t, s)'.code = 200
             /\ C7_Patch(b, t, s)'.tasks[t].status = s]_vars

\* C8: can_assign_task(T, U) holds exactly when U is a global admin, or owner
\* or ADMIN of T's project; a caller who is neither gets 403 from the assign
\* endpoint when naming a user, creator or assignee of T or not, and owner_id
\* stays as it is.
C8_AssignIffAdminOrProjectAdmin ==
    \A t \in DOMAIN tasks, u \in users :
        /\ can_assign_task(t, u) <=>
              \/ u \in admins
              \/ OwnsProjectOf(t, u)
              \/ AdminOfProjectOf(t, u)
        /\ u \notin admins /\ ~OwnsProjectOf(t, u) /\ ~AdminOfProjectOf(t, u)
              => \A o \in UserIds : assign_task(u, t, o) = Reply(403, tasks)

\* the creator is the only one who may unassign here, so the 403 answers an assignment
C8_Witness ==
    /\ last.op = "assign_task" /\ last.code = 403 /\ last.caller \notin admins
    /\ \E t \in DOMAIN tasks : IsCreator(t, last.caller) /\ IsAssignee(t, last.caller)

\* C9: can_unassign_task(T, U) holds exactly when U is T's assignee, or T's
\* creator, or a global admin, or owner or ADMIN of T's project; the assignee
\* can always clear owner_id through the assign endpoint; whoever may assign
\* may unassign.
C9_UnassignIff ==
    \A t \in DOMAIN tasks, u \in users :
        /\ can_unassign_task(t, u) <=>
              \/ IsAssignee(t, u)
              \/ IsCreator(t, u)
              \/ u \in admins
              \/ OwnsProjectOf(t, u)
              \/ AdminOfProjectOf(t, u)
        /\ IsAssignee(t, u)
              => assign_task(u, t, None) = Reply(200, [tasks EXCEPT ![t].owner_id = None])
        /\ can_assign_task(t, u) => can_unassign_task(t, u)

\* owner_id was cleared by a caller whom only being the assignee could have allowed
C9_Witness ==
    /\ last.op = "assign_task" /\ last.code = 200 /\ last.caller \notin admins
    /\ \E t \in DOMAIN tasks :
          /\ tasks[t].owner_id = None
          /\ ~IsCreator(t, last.caller)
          /\ ~OwnsProjectOf(t, last.caller) /\ ~AdminOfProjectOf(t, last.caller)

\* C11: a caller whose is_admin flag is set is never answered 403 for lacking
\* a project role or a relation to a task: on every existing task and project
\* each endpoint's authorization check passes for them.  The 403 left to them
\* are the ones that protect the OWNER row (removing it, changing it, asking
\* for role OWNER, the owner leaving).
C11_AdminOverride ==
    \A c \in admins \cap users :
        /\ \A t \in DOMAIN tasks :
              /\ get_task(c, t).code = 200
              /\ delete_task_endpoint(c, t).code = 204
              /\ \A s \in TaskStatus : update_task_status(c, t, s).code = 200
              /\ \A m \in 0..MaxMinutes : add_time_to_task(c, t, m).code = 200
              /\ \A upd \in TaskUpdate : partial_update_task(c, t, upd).code # 403
              /\ \A upd \in TaskUpdate : update_task_endpoint(c, t, upd).code # 403
              /\ \A o \in UserIds \cup {None} : assign_task(c, t, o).code # 403
        /\ \A p \in DOMAIN projects :
              /\ get_project_endpoint(c, p) = 200
              /\ update_project_endpoint(c, p) = 200
              /\ list_project_members(c, p) = 200
              /\ delete_project_endpoint(c, p).code = 204
              /\ \A o \in UserIds \cup {None} : create_task_endpoint(c, p, o).code # 403
              /\ \A u \in UserIds, role \in ProjectRole : add_project_member(c, p, u, role).code # 403
              /\ \A u \in UserIds : \A i \in FirstRow(p, u), j \in FirstRow(p, u) :
                    remove_project_member(c, p, u, i, j).code = 403
                        => \/ c = u /\ get_user_role(p, u, i) = OWNER
                           \/ j # 0 /\ Rows(p, u)[j] = OWNER
              /\ \A u \in UserIds, role \in ProjectRole \cup {Unset} : \A j \in FirstRow(p, u) :
                    update_project_member_role(c, p, u, role, j).code = 403
                        => j # 0 /\ (Rows(p, u)[j] = OWNER \/ role = OWNER)

\* a global admin with no relation to the task and no role in its project read it
C11_Witness ==
    /\ last.op = "get_task" /\ last.code = 200 /\ last.caller \in admins
    /\ \E t \in DOMAIN tasks :
          /\ ~can_view_task(t, last.caller)
          /\ InProject(t) /\ RowsInProjectOf(t, last.caller) = <<>>

\* C12: every resolver predicate answers false when the task or the project
\* it is asked about does not exist, for every user, global admins included.
C12_FalseOnMissing ==
    \A u \in UserIds :
        /\ \A t \in TaskIds \ DOMAIN tasks :
              /\ ~can_view_task(t, u) /\ ~can_edit_task(t, u)
              /\ ~can_assign_task(t, u) /\ ~can_unassign_task(t, u)
        /\ \A p \in ProjectIds \ DOMAIN projects :
              /\ ~is_project_owner(p, u) /\ ~is_project_admin(p, u)
              /\ ~is_project_member(p, u) /\ ~can_manage_members(p, u)

\* a project that had a member besides its owner was deleted, and so was a task
C12_Witness ==
    /\ last.op = "delete_project_endpoint" /\ last.code = 204
    /\ nextTask > 1 /\ tasks = <<>>
    /\ nextProject > 1 /\ projects = <<>>

\* C13: for add-time requests by a caller who may edit the task: adding 0
\* minutes leaves the task as it is, and adding m1 and then m2 leaves the
\* tasks table exactly as a single request adding m1 + m2 would have.
C13_AddTimeAdds ==
    /\ [](\A t \in DOMAIN tasks, c \in users :
             can_edit_task(t, c) \/ c \in admins
                 => add_time_to_task(c, t, 0) = Reply(200, tasks))
    /\ [][\A t \in DOMAIN tasks, c \in users, m1 \in 0..MaxMinutes :
             /\ last' = Handled("add_time_to_task", c, 200)
             /\ add_time_to_task(c, t, m1) = Reply(200, tasks')
             => \A m2 \in 0..MaxMinutes :
                    /\ add_time_to_task(c, t, m2)' = add_time_to_task(c, t, m1 + m2)
                    /\ add_time_to_task(c, t, m2)'.tasks[t] =
                           [tasks[t] EXCEPT !.total_minutes = @ + m1 + m2]]_vars

\* minutes were added to a task
C13_Witness ==
    /\ last.op = "add_time_to_task" /\ last.code = 200
    /\ \E t \in DOMAIN tasks : tasks[t].total_minutes > 0

C15_LostUpdate ==
    [][\A w \in Workers :
           adding[w] # Idle /\ adding'[w] = Idle /\ adding[w].task \in DOMAIN tasks
           => LET q == adding[w]
              IN /\ tasks'[q.task].total_minutes = q.read + q.minutes
                 /\ tasks[q.task].total_minutes > q.read
                       => tasks'[q.task].total_minutes
                              < tasks[q.task].total_minutes + q.minutes]_vars

\* a request that adds minutes has read a total that another request, answered
\* 200 since, has raised: its commit is about to overwrite those minutes
C15_Witness ==
    /\ last.op = "add_time_to_task" /\ last.code = 200
    /\ \E w \in Workers :
          /\ adding[w] # Idle /\ adding[w].minutes > 0
          /\ adding[w].task \in DOMAIN tasks
          /\ tasks[adding[w].task].total_minutes > adding[w].read

\* what a successful DELETE of project p leaves of it in the store
C16_Gone(p) ==
    /\ \A t \in DOMAIN tasks' : tasks'[t].project_id # p
    /\ \A u \in UserIds : members'[<<p, u>>] = <<>>

\* C16: after a successful DELETE of project P no task with project_id = P and
\* no project_members row of P is left, and a GET of any former task of P, or
\* of P's member list, is answered 404 for every caller.
C16_DeleteProjectCascades ==
    [][\A p \in DOMAIN projects \ DOMAIN projects' :
           last'.op = "delete_project_endpoint" /\ last'.code = 204
           => /\ C16_Gone(p)
              /\ \A c \in users :
                    /\ list_project_members(c, p)' = 404
                    /\ \A t \in DOMAIN tasks :
                          tasks[t].project_id = p => get_task(c, t)'.code = 404]_vars

\* C17: no two users share an email; a register or email-change request for
\* an email another user holds is answered 400 and leaves table users as it
\* is, and so is a register request whose password and confirmation differ.
C17_UniqueEmail ==
    /\ \A x \in users, y \in users : emails[x] = emails[y] => x = y
    /\ \A e \in Emails :
          /\ register_user(e, FALSE) = Users(400, emails, admins)
          /\ EmailTaken(e) => register_user(e, TRUE) = Users(400, emails, admins)
    /\ \A c \in users, u \in users, upd \in UserUpdate :
          /\ upd.email # Unset /\ (\E x \in users \ {c} : emails[x] = upd.email)
                => update_user_profile(c, upd) = Users(400, emails, admins)
          /\ c \in admins /\ upd.email # Unset /\ (\E x \in users \ {u} : emails[x] = upd.email)
                => update_user(c, u, upd) = Users(400, emails, admins)

\* an email change was refused while three users hold three emails
C17_Witness ==
    /\ last.op = "update_user_profile" /\ last.code = 400
    /\ Cardinality(users) = 3

\* C18: a token that does not parse, is wrongly signed, has expired, has no
\* subject, or whose subject is the email of no current user is answered 401
\* by get_current_user, before any handler runs, and the store stays as it is.
C18_BadTokenIs401 ==
    /\ [](\A tok \in Tokens :
             \/ ~tok.wellformed \/ ~tok.signed \/ tok.expired
             \/ tok.sub = Unset \/ ~EmailTaken(tok.sub)
             => get_current_user(tok) = [code |-> 401, user |-> None])
    /\ [][last'.code = 401 => UNCHANGED store]_vars

\* a request was answered 401 while the email the administrator was seeded
\* with is the email of no user: a token issued for it matches nobody
C18_Witness ==
    /\ last.code = 401 /\ last.op = "delete_user"
    /\ ~EmailTaken("admin@example.com")

\* C19: after an admin has deleted user U, no task with user_id = U and no
\* project_members row with user_id = U is left in the store.
C19_DeleteUserCascades ==
    [][\A u \in users \ users' :
           /\ last' = Handled("delete_user", last'.caller, 204)
           /\ last'.caller \in admins
           /\ \A t \in DOMAIN tasks' : tasks'[t].user_id # u
           /\ \A p \in ProjectIds : members'[<<p, u>>] = <<>>]_vars

\* a user was deleted from a store in which a task had been created and a
\* project of another user, with its owner's row, is still there
C19_Witness ==
    /\ last.op = "delete_user" /\ last.code = 204
    /\ nextTask > 1
    /\ \E p \in DOMAIN projects : HasRole(p, projects[p].owner_id, OWNER)

\* C20: a task created without owner_id has the creator as owner_id, and its
\* user_id is the caller; a create request naming another user as owner_id
\* succeeds only when the caller is a global admin or owner or ADMIN of the
\* project given, and is otherwise answered 403 with no task created.
C20_CreateOwnerDefault ==
    \A c \in users, p \in ProjectIds \cup {None}, o \in UserIds \cup {None} :
        LET r == create_task_endpoint(c, p, o)
            mayAssign == \/ c \in admins
                         \/ p \in DOMAIN projects /\ projects[p].owner_id = c
                         \/ p # None /\ HasRole(p, c, ADMIN)
        IN /\ r.code = 201
                => /\ DOMAIN r.tasks = DOMAIN tasks \cup {nextTask}
                   /\ \A t \in DOMAIN tasks : r.tasks[t] = tasks[t]
                   /\ r.tasks[nextTask].user_id = c
                   /\ r.tasks[nextTask].owner_id = IF o = None THEN c ELSE o
           /\ r.code # 201 => r.tasks = tasks
           /\ o = None /\ (p = None \/ (p \in DOMAIN projects /\ Rows(p, c) # <<>>))
                => r.code = 201
           /\ o # None /\ o # c /\ r.code = 201 => mayAssign
           /\ o # None /\ o # c /\ ~mayAssign => r = Reply(403, tasks)

\* a project ADMIN, no global admin and not the project's owner, created a
\* task in the project for another user
C20_Witness ==
    /\ last.op = "create_task_endpoint" /\ last.code = 201 /\ last.caller \notin admins
    /\ \E t \in DOMAIN tasks :
          /\ IsCreator(t, last.caller) /\ ~IsAssignee(t, last.caller)
          /\ InProject(t) /\ ~OwnsProjectOf(t, last.caller)
          /\ AdminOfProjectOf(t, last.caller)

\* the value of the field a list is asked to be sorted by
FieldValue(t, f) ==
    IF f = "total_minutes" THEN tasks[t].total_minutes ELSE SortKey(t, f)

\* `items` is ordered by field f in the direction given
Ordered(items, f, asc) ==
    \A i, j \in DOMAIN items :
        i < j => IF asc THEN FieldValue(items[i], f) <= FieldValue(items[j], f)
                 ELSE FieldValue(items[i], f) >= FieldValue(items[j], f)

\* C21: GET /tasks/ with a sort_by outside the allow-list returns its items
\* ordered by created_at descending; with a sort_by of the allow-list they
\* are ordered by that field in the direction asked for.
C21_SortFallback ==
    \A c \in users, p \in ProjectIds \cup {None}, o \in users \cup {None},
       st \in TaskStatus \cup {Unset}, skip \in 0..1, limit \in 1..MaxListed,
       sort_by \in SortFields, sort_order \in {"asc", "desc"},
       order \in Perms(DOMAIN tasks) :
        LET r == list_user_tasks(c, p, o, st, skip, limit, sort_by, sort_order, order)
        IN r.code = 200
           => IF sort_by \in valid_sort_fields
              THEN Ordered(r.items, sort_by, sort_order = "asc")
              ELSE Ordered(r.items, "created_at", FALSE)

\* C25: every task GET /tasks/ returns to a caller who is not a global admin
\* is a task that caller may view, whatever the project_id, owner_id and
\* status filters.
C25_ListedAreViewable ==
    \A c \in users \ admins, p \in ProjectIds \cup {None}, o \in users \cup {None},
       st \in TaskStatus \cup {Unset}, skip \in 0..1, limit \in 1..MaxListed,
       order \in Perms(DOMAIN tasks) :
        LET r == list_user_tasks(c, p, o, st, skip, limit, "created_at", "desc", order)
        IN \A i \in DOMAIN r.items : can_view_task(r.items[i], c)

\* C29: `total` of the GET /tasks/ response is the number of stored tasks
\* that match all the filters given, whatever skip and limit are, and
\* `pages` is ceil(total / limit).
C29_TotalCountsMatches ==
    \A c \in users, p \in ProjectIds \cup {None}, o \in users \cup {None},
       st \in TaskStatus \cup {Unset}, skip \in 0..1, limit \in 1..MaxListed,
       order \in Perms(DOMAIN tasks) :
        LET r == list_user_tasks(c, p, o, st, skip, limit, "created_at", "desc", order)
            n == Cardinality({t \in DOMAIN tasks :
                                 /\ Selected(c, p, o, t)
                                 /\ st # Unset => tasks[t].status = st})
        IN r.code = 200
           => /\ r.total = n
              /\ r.pages * limit >= r.total /\ (r.pages - 1) * limit < r.total

\* the backend is not configured, cannot be reached, raises, or returns a
\* text that does not parse
BackendFails(b) ==
    \/ ~b.configured
    \/ ~b.client
    \/ b.reply = Raises
    \/ ~json_loads(b.reply).ok

C23_ManagersUpdateRoles ==
    \A c \in users, p \in DOMAIN projects, u \in UserIds, role \in {MEMBER, ADMIN} :
        \A j \in FirstRow(p, u) :
            (/\ can_manage_members(p, c) \/ c \in admins
             /\ j # 0
             /\ Rows(p, u)[j] # OWNER)
            => LET r == update_project_member_role(c, p, u, role, j)
               IN r.code = 200 /\ r.members[<<p, u>>][j] = role

\* C24: a regular user cannot promote themself: no request whose caller is
\* not a global admin (registration included) makes any user a global admin,
\* and a newly registered user is not a global admin.
C24_NoSelfPromotion ==
    [][last'.caller \notin admins
       => /\ admins' \subseteq admins
          /\ (users' \ users) \cap admins' = {}]_vars

C24_Witness ==
    /\ last.op = "update_user_profile"
    /\ last.code = 200
    /\ last.caller \in users \ admins
    /\ admins # {}

\* C26: a bearer token issued at login to user U never authenticates a
\* request as a different user, whatever email changes, registrations and
\* deletions have happened since.
C26_TokenKeepsItsUser ==
    \A t \in issued :
        LET r == get_current_user(Bearer(t))
        IN r.code = 200 => r.user = t.user

\* C27: whatever create-project and add-member requests have run, also
\* interleaved, there is at most one ProjectMember row per (project, user),
\* and an add-member for a user who has a row answers 400 and adds no row.
C27_OneRowPerPair ==
    /\ \A p \in ProjectIds, u \in UserIds : Len(Rows(p, u)) <= 1
    /\ \A c \in users, p \in DOMAIN projects, u \in UserIds, role \in ProjectRole :
           (Rows(p, u) # <<>> /\ (can_manage_members(p, c) \/ c \in admins))
           => LET r == add_project_member(c, p, u, role)
              IN r.code = 400 /\ r.members = members

\* C28: in every reachable state, a user who may edit a task may view it.
C28_EditImpliesView ==
    \A t \in TaskIds, u \in UserIds : can_edit_task(t, u) => can_view_task(t, u)

\* a project ADMIN who neither created the task nor is assigned to it
C28_Witness ==
    \E t \in DOMAIN tasks, u \in users :
        /\ tasks[t].user_id # u
        /\ tasks[t].owner_id # u
        /\ tasks[t].project_id # None
        /\ ~is_project_owner(tasks[t].project_id, u)
        /\ can_edit_task(t, u)
        /\ can_view_task(t, u)

\* C30: deleting a user removes only that user's own records: no task whose
\* creator is another user and no ProjectMember row of another user is
\* deleted by it.
C30_DeleteUserOnlyOwn ==
    [][\A u \in users \ users' :
           /\ \A t \in DOMAIN tasks : tasks[t].user_id # u => t \in DOMAIN tasks'
           /\ \A p \in ProjectIds, v \in UserIds \ {u} :
                  members'[<<p, v>>] = members[<<p, v>>]]_vars

====
